---- MODULE Spec2Model ----
(***************************************************************************)
(* Model of the v2 health-check handler of healthcheck-go-sdk:             *)
(* the healthCheck registry (dependencies map guarded by                   *)
(* dependenciesMutex), UpdateHealth, runChecks / check rounds,             *)
(* StartBackgroundCheck with its ticker goroutine, and getResponse.        *)
(*                                                                         *)
(* Every Go statement that touches shared state without holding            *)
(* dependenciesMutex is a step of its own, so that the interleavings the   *)
(* goroutines can produce are the behaviours of the model.                 *)
(***************************************************************************)
EXTENDS Naturals, Sequences, FiniteSets, TLC

\* ------------------------------------------------------------- bounds
\* Largest value of the wall clock (time.Now()); 0 stands for "absent".
MaxTime == 2
\* Largest number of calls clients make that write the registry
\* (AddHealthCheck, AddHardHealthCheck, UpdateHealth).
MaxCalls == 3
\* Largest number of dependencies with a callable that a service running
\* several StartBackgroundCheck calls registers.
MaxSchedCallables == 1
\* Largest number of additionalCheck functions given to a check template.
MaxChecks == 2

\* ------------------------------------------------------------- domains
\* Dependency names offered to the registration and update calls.
Names == {"db", "cache"}
\* Goroutines that call StartBackgroundCheck, once each.
Starters == {<<"starter", 1>>, <<"starter", 2>>}
\* The ticker goroutine each of those calls may spawn.
Drivers == {<<"driver", 1>>, <<"driver", 2>>}
DriverOf(s) == <<"driver", s[2]>>
\* Goroutines serving /healthz (handlerV3 / handlerV1 -> getResponse).
Getters == {<<"getter", 1>>}
\* Every goroutine that can own a check round (a call of runChecks).
Owners == Starters \cup Drivers \cup Getters
\* context.Context values handed to StartBackgroundCheck.
Ctxs == {"c1", "c2"}
\* The context each caller of StartBackgroundCheck passes.
CtxOf(s) == IF s[2] = 1 THEN "c1" ELSE "c2"
\* CheckFunc values: nil, or a callable whose outcome is not known in advance.
Funcs == {"nil", "f"}
\* Message of the error a CheckFunc returns, and of a caller's CheckError.
FuncErrMsg == "check failed"
UpdateMsg == "smtp timeout"

StatusOK == 200
StatusServiceUnavailable == 503

\* ------------------------------------------------------------- records
\* A nil *lastError.
NoError == [present |-> FALSE, Message |-> "", Timestamp |-> 0]

\* &lastError{Message: m, Timestamp: t}; t = 0 is a nil Timestamp.
MkError(m, t) == [present |-> TRUE, Message |-> m, Timestamp |-> t]

\* A registration as it would be if a new record started out healthy.
NewDependencyHealthy(name, hard, fn) ==
    [Name |-> name, Healthy |-> TRUE, HardDependency |-> hard,
     LastKnownGoodCall |-> 0, LastCall |-> 0, LastError |-> NoError,
     errRef |-> 0, checkFunc |-> fn]

\* The healthDependency a registration stores: zero Healthy, nil times.
\* (URL is display-only and is left out.)  LastError is a *lastError: the
\* record holds the value pointed to and, in errRef, which lastError object
\* that is (0 for nil), so that copies of the record share the object.
NewDependency(name, hard, fn) ==
    [Name |-> name, Healthy |-> FALSE, HardDependency |-> hard,
     LastKnownGoodCall |-> 0, LastCall |-> 0, LastError |-> NoError,
     errRef |-> 0, checkFunc |-> fn]

\* Placeholder held by a round for a name it has no copy of.
NoCopy == NewDependency("", FALSE, "nil")

\* A nil *CheckError, and the CheckError values a caller may pass.
NilCheckError == [isNil |-> TRUE, Message |-> "", Timestamp |-> 0]

VARIABLES
    dependencies,       \* h.dependencies: map name -> healthDependency
    dependenciesMutex,  \* "unlocked" | "locked"
    bgCheckRunning,     \* h.bgCheckRunning
    now,                \* the wall clock read by time.Now()
    crashed,            \* the runtime stopped the process (fatal error)
    pc,                 \* position of each starter / driver / getter
    ctx,                \* the context each starter / driver holds
    cancelled,          \* which contexts are Done
    todo,               \* per round: names the range loop has yet to visit
    gst,                \* per round and name: state of the check goroutine
    gd,                 \* per round and name: the goroutine's copy d
    atCall,             \* per round: names registered with a callable at its start
    report,             \* per getter: the (status, response) last returned
    updateErr,          \* what the last UpdateHealth returned
    calls,              \* number of registration and update calls so far
    healthDependency,   \* v1 handler: map "name|url" -> CheckFunc
    checksMutex,        \* v1 handler: "unlocked" | "locked"
    v1pc,               \* v1 handler: position of the request being served
    v1running,          \* v1 handler: keys whose goroutine has not finished
    result,             \* v1 handler: Dependencies of the response being built
    v1response,         \* v1 handler: the (status, response) last returned
    upc,                \* position of each UpdateHealth call in progress
    uargs,              \* the arguments of each UpdateHealth call in progress
    dependency,         \* UpdateHealth's local copy `dependency` of the entry
    template,           \* check templates: which template built the CheckFunc
    client,             \* check templates: the client given ("nil" or "set")
    probe,              \* check templates: what the primary probe returns
    additionalCheck,    \* check templates: what each additionalCheck returns
    invoked,            \* check templates: additionalCheck functions called
    returned            \* check templates: what the CheckFunc returned

\* The state of the v1 handler.
v1vars == <<healthDependency, checksMutex, v1pc, v1running, result, v1response>>

\* The state of a CheckFunc built by a template of checks.go.
chvars == <<template, client, probe, additionalCheck, invoked, returned>>

\* The state of the UpdateHealth calls followed statement by statement.
upvars == <<upc, uargs, dependency>>

vars == <<dependencies, dependenciesMutex, bgCheckRunning, now, crashed, pc,
          ctx, cancelled, todo, gst, gd, atCall, report, updateErr, calls, v1vars, upvars, chvars>>

Registered == DOMAIN dependencies

CheckErrors ==
    {NilCheckError} \cup
    {[isNil |-> FALSE, Message |-> UpdateMsg, Timestamp |-> t] : t \in {0, now}}

\* h.dependencies[name] = d
MapAssign(m, name, d) ==
    [n \in (DOMAIN m) \cup {name} |-> IF n = name THEN d ELSE m[n]]

\* Some runChecks is inside its unlocked `for _, d := range h.dependencies`.
RangeActive == \E o \in Owners : pc[o] = "range"

\* A map write that overlaps a range over the same map is a data race; the
\* Go runtime may detect it and stop the process ("fatal error: concurrent
\* map iteration and map write") or may let it pass.
RaceOutcomes == IF RangeActive THEN {FALSE, TRUE} ELSE {FALSE}

NoReport == [status |-> 0, Healthy |-> TRUE, Dependencies |-> <<>>]

EmptyRound == [n \in Names |-> "none"]
EmptyCopies == [n \in Names |-> NoCopy]

\* Concurrent callers of UpdateHealth.
Updaters == {<<"updater", 1>>, <<"updater", 2>>}

NoArgs == [name |-> "", isHealthy |-> FALSE, checkError |-> NilCheckError]

\* No UpdateHealth call is in progress.
UpInit ==
    /\ upc = [u \in Updaters |-> "idle"]
    /\ uargs = [u \in Updaters |-> NoArgs]
    /\ dependency = [u \in Updaters |-> NoCopy]

\* No CheckFunc of a template is under consideration.
ChInit ==
    /\ template = "none"
    /\ client = "nil"
    /\ probe = "nil"
    /\ additionalCheck = <<>>
    /\ invoked = 0
    /\ returned = "not called"

\* The v1 handler as its New(serviceName, basePath) returns it.
V1Init ==
    /\ healthDependency = [k \in {} |-> "nil"]
    /\ checksMutex = "unlocked"
    /\ v1pc = "idle"
    /\ v1running = {}
    /\ result = <<>>
    /\ v1response = NoReport

\* The v2 handler as New(serviceName, basePath) returns it.
NewHandler ==
    /\ dependencies = [n \in {} |-> NoCopy]
    /\ dependenciesMutex = "unlocked"
    /\ bgCheckRunning = FALSE
    /\ now = 1
    /\ crashed = FALSE
    /\ pc = [o \in Owners |-> IF o \in Drivers THEN "none" ELSE "idle"]
    /\ ctx = [t \in Drivers |-> "c1"]
    /\ cancelled = [c \in Ctxs |-> FALSE]
    /\ todo = [o \in Owners |-> {}]
    /\ gst = [o \in Owners |-> EmptyRound]
    /\ gd = [o \in Owners |-> EmptyCopies]
    /\ atCall = [o \in Owners |-> {}]
    /\ report = [g \in Getters |-> NoReport]
    /\ updateErr = "none"
    /\ calls = 0

Init ==
    /\ NewHandler
    /\ V1Init
    /\ UpInit
    /\ ChInit

\* A client makes one more registration or update call.
ClientCall == calls < MaxCalls /\ calls' = calls + 1

\* The lastError objects that some copy of `name`'s record outside the map
\* points to (the map entry itself is about to be replaced).
ErrRefsInUse(name) ==
    {gd[o][name].errRef : o \in Owners}
    \cup UNION {{report[g].Dependencies[i].errRef :
                   i \in {j \in 1..Len(report[g].Dependencies) :
                            report[g].Dependencies[j].Name = name}} : g \in Getters}

\* &lastError{}: an object no copy of `name`'s record points to yet.
FreshErrRef(name) ==
    CHOOSE r \in 1..(Cardinality(Owners) + Cardinality(Getters) + 1) :
        /\ r \notin ErrRefsInUse(name)
        /\ \A q \in 1..(r - 1) : q \in ErrRefsInUse(name)

\* ------------------------------------------------------------- the clock
\* Time passes between two reads of time.Now().
ClockTick ==
    /\ ~crashed
    /\ now < MaxTime
    /\ now' = now + 1
    /\ UNCHANGED <<dependencies, dependenciesMutex, bgCheckRunning, crashed, pc,
                   ctx, cancelled, todo, gst, gd, atCall, report, updateErr, calls,
                   v1vars, upvars, chvars>>

\* ------------------------------------------------------------- registration
\* A range in progress may or may not produce an entry created meanwhile.
TodoAfterInsert(name, seen) ==
    [o \in Owners |-> IF o \in seen THEN todo[o] \cup {name} ELSE todo[o]]

\* The body shared by AddHealthCheck and AddHardHealthCheck.
Register(name, hard, fn) ==
    /\ ~crashed
    /\ ClientCall
    /\ dependenciesMutex = "unlocked"
    /\ dependencies' = MapAssign(dependencies, name, NewDependency(name, hard, fn))
    /\ crashed' \in RaceOutcomes
    /\ \E seen \in SUBSET {o \in Owners : pc[o] = "range"} :
          todo' = IF name \in Registered THEN todo
                  ELSE TodoAfterInsert(name, seen)
    /\ atCall' = [o \in Owners |-> atCall[o] \ {name}]
    /\ UNCHANGED <<dependenciesMutex, bgCheckRunning, now, pc, ctx, cancelled,
                   gst, gd, report, updateErr, v1vars, upvars, chvars>>

AddHealthCheck(name, fn) == Register(name, FALSE, fn)

AddHardHealthCheck(name, fn) == Register(name, TRUE, fn)

\* ------------------------------------------------------------- UpdateHealth
\* UpdateHealth as it would be if success wiped the error.
UpdatedDependencyClearing(d, isHealthy, checkError) ==
    [d EXCEPT
       !.Healthy = isHealthy,
       !.LastCall = now,
       !.LastKnownGoodCall = IF isHealthy THEN now ELSE @,
       !.LastError = IF ~checkError.isNil
                     THEN MkError(checkError.Message, checkError.Timestamp)
                     ELSE IF isHealthy THEN NoError ELSE @]

\* UpdateHealth as it would be if it recorded the call but not its outcome.
UpdatedDependencyKeepHealthy(d, isHealthy, checkError) ==
    [d EXCEPT
       !.LastCall = now,
       !.LastKnownGoodCall = IF isHealthy THEN now ELSE @]

\* UpdateHealth as it would be if a good call were stamped one tick late.
UpdatedDependencyLateGood(d, isHealthy, checkError) ==
    [d EXCEPT
       !.Healthy = isHealthy,
       !.LastCall = now,
       !.LastKnownGoodCall = IF isHealthy THEN now + 1 ELSE @,
       !.LastError = IF checkError.isNil THEN @
                     ELSE MkError(checkError.Message, checkError.Timestamp)]

\* UpdateHealth as it would be if it ignored the caller's error detail.
UpdatedDependencyNoDetail(d, isHealthy, checkError) ==
    [d EXCEPT
       !.Healthy = isHealthy,
       !.LastCall = now,
       !.LastKnownGoodCall = IF isHealthy THEN now ELSE @]

\* The record UpdateHealth writes back for an existing dependency.
UpdatedDependency(d, isHealthy, checkError) ==
    [d EXCEPT
       !.Healthy = isHealthy,
       !.LastCall = now,
       !.LastKnownGoodCall = IF isHealthy THEN now ELSE @,
       !.LastError = IF checkError.isNil THEN @
                     ELSE MkError(checkError.Message, checkError.Timestamp),
       !.errRef = IF checkError.isNil THEN @ ELSE FreshErrRef(d.Name)]

\* UpdateHealth as it would be if it stored a record for an unknown name.
UpdateHealthUpsert(name, isHealthy, checkError) ==
    /\ ~crashed
    /\ ClientCall
    /\ dependenciesMutex = "unlocked"
    /\ dependencies' =
          MapAssign(dependencies, name,
                    UpdatedDependency(IF name \in Registered THEN dependencies[name]
                                      ELSE NewDependency(name, FALSE, "nil"),
                                      isHealthy, checkError))
    /\ crashed' \in RaceOutcomes
    /\ updateErr' = "nil"
    /\ UNCHANGED <<dependenciesMutex, bgCheckRunning, now, pc, ctx, cancelled,
                   todo, gst, gd, atCall, report, v1vars, upvars, chvars>>

UpdateHealth(name, isHealthy, checkError) ==
    /\ ~crashed
    /\ ClientCall
    /\ dependenciesMutex = "unlocked"
    /\ IF name \notin Registered
       THEN /\ updateErr' = "dependency name does not exist"
            /\ UNCHANGED <<dependencies, crashed>>
       ELSE /\ dependencies' =
                 MapAssign(dependencies, name,
                           UpdatedDependency(dependencies[name], isHealthy, checkError))
            /\ crashed' \in RaceOutcomes
            /\ updateErr' = "nil"
    /\ UNCHANGED <<dependenciesMutex, bgCheckRunning, now, pc, ctx, cancelled,
                   todo, gst, gd, atCall, report, v1vars, upvars, chvars>>

\* ------------------------------------------------------------- check rounds
\* runChecks begins: the range loop will visit the entries now in the map.
BeginRound(o) ==
    /\ todo' = [todo EXCEPT ![o] = Registered]
    /\ gst' = [gst EXCEPT ![o] = EmptyRound]
    /\ gd' = [gd EXCEPT ![o] = EmptyCopies]
    /\ atCall' = [atCall EXCEPT
                    ![o] = {n \in Registered : dependencies[n].checkFunc # "nil"}]

\* No round: the goroutine's round state is cleared.
NoRound(o) ==
    /\ todo' = [todo EXCEPT ![o] = {}]
    /\ gst' = [gst EXCEPT ![o] = EmptyRound]
    /\ gd' = [gd EXCEPT ![o] = EmptyCopies]
    /\ atCall' = [atCall EXCEPT ![o] = {}]

\* One iteration of `for _, d := range h.dependencies`: d is a copy of the
\* entry as it is now, read without the mutex; `go h.check(wg, d)`.
RangeStep(o, n) ==
    /\ ~crashed
    /\ pc[o] = "range"
    /\ n \in todo[o]
    /\ todo' = [todo EXCEPT ![o] = @ \ {n}]
    /\ gd' = [gd EXCEPT ![o][n] = dependencies[n]]
    /\ gst' = [gst EXCEPT ![o][n] = "ready"]
    /\ UNCHANGED <<dependencies, dependenciesMutex, bgCheckRunning, now, crashed,
                   pc, ctx, cancelled, atCall, report, updateErr, calls, v1vars, upvars, chvars>>

\* The range loop ends; runChecks goes on to wg.Wait().
RangeEnd(o) ==
    /\ ~crashed
    /\ pc[o] = "range"
    /\ todo[o] = {}
    /\ pc' = [pc EXCEPT ![o] = "wait"]
    /\ UNCHANGED <<dependencies, dependenciesMutex, bgCheckRunning, now, crashed,
                   ctx, cancelled, todo, gst, gd, atCall, report, updateErr, calls,
                   v1vars, upvars, chvars>>

\* runChecks as it would be if it returned without waiting for its goroutines.
JoinedAtOnce(o) == TRUE

\* wg.Wait() returns: every goroutine of the round has called wg.Done().
Joined(o) == \A n \in Names : gst[o][n] \notin {"ready", "calling"}

\* d.check() up to the call of checkFunc: LastCall = &now.
CheckStarted(d, t) == [d EXCEPT !.LastCall = t]

\* d.check() as it would be if an error left Healthy as it was.
CheckFinishedKeepHealthy(d, err) ==
    IF err = "nil"
    THEN [d EXCEPT !.Healthy = TRUE, !.LastKnownGoodCall = d.LastCall]
    ELSE [d EXCEPT !.LastError = MkError(err, d.LastCall)]

\* d.check() as it would be if a success did not stamp the good call.
CheckFinishedNoGoodCall(d, err) ==
    IF err = "nil"
    THEN [d EXCEPT !.Healthy = TRUE]
    ELSE [d EXCEPT !.LastError = MkError(err, d.LastCall), !.Healthy = FALSE,
                   !.errRef = IF @ = 0 THEN FreshErrRef(d.Name) ELSE @]

\* d.check() after checkFunc returned err ("nil" or the error's message).
\* On an error a nil LastError is replaced by a new object; a non-nil one
\* is kept and written through.
CheckFinished(d, err) ==
    IF err = "nil"
    THEN [d EXCEPT !.Healthy = TRUE, !.LastKnownGoodCall = d.LastCall]
    ELSE [d EXCEPT !.LastError = MkError(err, d.LastCall), !.Healthy = FALSE,
                   !.errRef = IF @ = 0 THEN FreshErrRef(d.Name) ELSE @]

\* Another copy x of a record, after d.check() on copy d got err: when both
\* point to the same lastError object, x sees the Message and Timestamp
\* that d.check() assigned through the pointer.
WrittenThrough(x, d, err) ==
    IF err # "nil" /\ d.errRef # 0 /\ x.Name = d.Name /\ x.errRef = d.errRef
    THEN [x EXCEPT !.LastError = MkError(err, d.LastCall)]
    ELSE x

\* h.check on a copy whose checkFunc is nil: Lock, d.check() returns at
\* once, h.dependencies[d.Name] = d, Unlock, wg.Done().
CheckSkip(o, n) ==
    /\ ~crashed
    /\ gst[o][n] = "ready"
    /\ gd[o][n].checkFunc = "nil"
    /\ dependenciesMutex = "unlocked"
    /\ dependencies' = MapAssign(dependencies, n, gd[o][n])
    /\ crashed' \in RaceOutcomes
    /\ gst' = [gst EXCEPT ![o][n] = "skipped"]
    /\ gd' = [gd EXCEPT ![o][n] = NoCopy]
    /\ UNCHANGED <<dependenciesMutex, bgCheckRunning, now, pc, ctx, cancelled,
                   todo, atCall, report, updateErr, calls, v1vars, upvars, chvars>>

\* h.check on a copy with a callable: Lock, then d.check() reads the clock
\* and calls checkFunc, which runs while the mutex is held.
CheckCall(o, n) ==
    /\ ~crashed
    /\ gst[o][n] = "ready"
    /\ gd[o][n].checkFunc # "nil"
    /\ dependenciesMutex = "unlocked"
    /\ dependenciesMutex' = "locked"
    /\ gd' = [gd EXCEPT ![o][n] = CheckStarted(@, now)]
    /\ gst' = [gst EXCEPT ![o][n] = "calling"]
    /\ UNCHANGED <<dependencies, bgCheckRunning, now, crashed, pc, ctx, cancelled,
                   todo, atCall, report, updateErr, calls, v1vars, upvars, chvars>>

\* h.check as it would be if it dropped its outcome when the record had been
\* written since the round copied it.
CheckReturnUnlessWritten(o, n, err) ==
    /\ ~crashed
    /\ gst[o][n] = "calling"
    /\ dependencies' =
          IF n \in Registered /\ dependencies[n].LastCall # 0
          THEN dependencies
          ELSE MapAssign(dependencies, n, CheckFinished(gd[o][n], err))
    /\ crashed' \in RaceOutcomes
    /\ dependenciesMutex' = "unlocked"
    /\ gst' = [gst EXCEPT ![o][n] = "done"]
    /\ gd' = [gd EXCEPT ![o][n] = NoCopy]
    /\ UNCHANGED <<bgCheckRunning, now, pc, ctx, cancelled, todo, atCall, report,
                   updateErr, calls, v1vars, upvars, chvars>>

\* h.check as it would be if an error of one callable ended the round: the
\* goroutines still waiting for the mutex return without checking.
CheckReturnAbortsRound(o, n, err) ==
    /\ ~crashed
    /\ gst[o][n] = "calling"
    /\ dependencies' = MapAssign(dependencies, n, CheckFinished(gd[o][n], err))
    /\ crashed' \in RaceOutcomes
    /\ dependenciesMutex' = "unlocked"
    /\ gst' = [gst EXCEPT ![o] = [k \in Names |->
                  IF k = n THEN "done"
                  ELSE IF err # "nil" /\ gst[o][k] = "ready" THEN "skipped"
                  ELSE gst[o][k]]]
    /\ gd' = [gd EXCEPT ![o][n] = NoCopy]
    /\ UNCHANGED <<bgCheckRunning, now, pc, ctx, cancelled, todo, atCall, report,
                   updateErr, calls, v1vars, upvars, chvars>>

\* checkFunc returns err; d.check() finishes, h.dependencies[d.Name] = d,
\* Unlock, wg.Done().
CheckReturn(o, n, err) ==
    /\ ~crashed
    /\ gst[o][n] = "calling"
    /\ dependencies' = MapAssign(dependencies, n, CheckFinished(gd[o][n], err))
    /\ crashed' \in RaceOutcomes
    /\ dependenciesMutex' = "unlocked"
    /\ gst' = [gst EXCEPT ![o][n] = "done"]
    /\ gd' = [o2 \in Owners |-> [n2 \in Names |->
                IF o2 = o /\ n2 = n THEN NoCopy
                ELSE WrittenThrough(gd[o2][n2], gd[o][n], err)]]
    /\ report' = [g \in Getters |->
                    [report[g] EXCEPT
                       !.Dependencies =
                          [i \in 1..Len(report[g].Dependencies) |->
                             WrittenThrough(report[g].Dependencies[i], gd[o][n], err)]]]
    /\ UNCHANGED <<bgCheckRunning, now, pc, ctx, cancelled, todo, atCall,
                   updateErr, calls, v1vars, upvars, chvars>>

\* ------------------------------------------------------------- getResponse
\* All orders in which a range over the map can produce the names in S.
Orders(S) ==
    {s \in [1..Cardinality(S) -> S] : \A i, j \in 1..Cardinality(S) : s[i] = s[j] => i = j}

\* The loop as the v1 handler has it: any unhealthy dependency breaks it.
RECURSIVE AnyFailure(_)
AnyFailure(deps) ==
    IF deps = <<>> THEN FALSE
    ELSE IF ~Head(deps).Healthy THEN TRUE
    ELSE AnyFailure(Tail(deps))

\* The loop over healthStatusResp.Dependencies: true when it breaks on an
\* unhealthy hard dependency.
RECURSIVE HardFailure(_)
HardFailure(deps) ==
    IF deps = <<>> THEN FALSE
    ELSE IF ~Head(deps).Healthy /\ Head(deps).HardDependency THEN TRUE
    ELSE HardFailure(Tail(deps))

\* The response as it would be if every unhealthy entry made it unhealthy.
ResponseSoftCounts(deps) ==
    IF \E i \in 1..Len(deps) : ~deps[i].Healthy
    THEN [status |-> StatusServiceUnavailable, Healthy |-> FALSE, Dependencies |-> deps]
    ELSE [status |-> StatusOK, Healthy |-> TRUE, Dependencies |-> deps]

\* The (responseStatus, healthStatusResp) getResponse returns for the
\* appended dependencies.
Response(deps) ==
    IF HardFailure(deps)
    THEN [status |-> StatusServiceUnavailable, Healthy |-> FALSE, Dependencies |-> deps]
    ELSE [status |-> StatusOK, Healthy |-> TRUE, Dependencies |-> deps]

\* The record has been called at least once.
Called(d) == d.LastCall # 0

\* The append as it would be if only records that have been called were listed.
AppendedCalled(m, order) == SelectSeq([i \in 1..Len(order) |-> m[order[i]]], Called)

\* The dependencies appended, under the mutex, in range order `order`.
Appended(m, order) == [i \in 1..Len(order) |-> m[order[i]]]

\* getResponse as it would be if it never ran checks inline.
GetReadCached(g) ==
    /\ ~crashed
    /\ pc[g] = "idle"
    /\ pc' = [pc EXCEPT ![g] = "cached"]
    /\ report' = [report EXCEPT ![g] = NoReport]
    /\ UNCHANGED <<dependencies, dependenciesMutex, bgCheckRunning, now, crashed,
                   ctx, cancelled, todo, gst, gd, atCall, updateErr, calls, v1vars, upvars, chvars>>

\* getResponse reads h.bgCheckRunning: not running -> runChecks inline.
GetRead(g) ==
    /\ ~crashed
    /\ pc[g] = "idle"
    /\ IF bgCheckRunning
       THEN pc' = [pc EXCEPT ![g] = "cached"] /\ UNCHANGED <<todo, gst, gd, atCall>>
       ELSE pc' = [pc EXCEPT ![g] = "range"] /\ BeginRound(g)
    /\ report' = [report EXCEPT ![g] = NoReport]
    /\ UNCHANGED <<dependencies, dependenciesMutex, bgCheckRunning, now, crashed,
                   ctx, cancelled, updateErr, calls, v1vars, upvars, chvars>>

\* wg.Wait() of the inline round returns.
GetJoin(g) ==
    /\ ~crashed
    /\ pc[g] = "wait"
    /\ Joined(g)
    /\ pc' = [pc EXCEPT ![g] = "checked"]
    /\ UNCHANGED <<dependencies, dependenciesMutex, bgCheckRunning, now, crashed,
                   ctx, cancelled, todo, gst, gd, atCall, report, updateErr, calls,
                   v1vars, upvars, chvars>>

\* Lock, append every dependency, Unlock, fold, return.
GetSnapshot(g) ==
    /\ ~crashed
    /\ pc[g] \in {"cached", "checked"}
    /\ dependenciesMutex = "unlocked"
    /\ \E order \in Orders(Registered) :
          report' = [report EXCEPT ![g] = Response(Appended(dependencies, order))]
    /\ pc' = [pc EXCEPT ![g] = "idle"]
    /\ NoRound(g)
    /\ UNCHANGED <<dependencies, dependenciesMutex, bgCheckRunning, now, crashed,
                   ctx, cancelled, updateErr, calls, v1vars, upvars, chvars>>

\* ------------------------------------------------------------- scheduler
\* StartBackgroundCheck as it would be without the bgCheckRunning guard.
StartReadAlways(s) ==
    /\ ~crashed
    /\ pc[s] = "idle"
    /\ pc' = [pc EXCEPT ![s] = "set"]
    /\ UNCHANGED <<dependencies, dependenciesMutex, bgCheckRunning, now, crashed,
                   ctx, cancelled, todo, gst, gd, atCall, report, updateErr, calls,
                   v1vars, upvars, chvars>>

\* StartBackgroundCheck(CtxOf(s)) reads h.bgCheckRunning and returns if it is set.
StartRead(s) ==
    /\ ~crashed
    /\ pc[s] = "idle"
    /\ pc' = [pc EXCEPT ![s] = IF bgCheckRunning THEN "noop" ELSE "set"]
    /\ UNCHANGED <<dependencies, dependenciesMutex, bgCheckRunning, now, crashed,
                   ctx, cancelled, todo, gst, gd, atCall, report, updateErr, calls,
                   v1vars, upvars, chvars>>

\* StartBackgroundCheck as it would be if the first round waited for the
\* ticker: the flag is set and the goroutine is started with no round run.
StartSetNoRound(s) ==
    /\ ~crashed
    /\ pc[s] = "set"
    /\ bgCheckRunning' = TRUE
    /\ pc' = [pc EXCEPT ![s] = "wait"]
    /\ atCall' = [atCall EXCEPT
                    ![s] = {n \in Registered : dependencies[n].checkFunc # "nil"}]
    /\ UNCHANGED <<dependencies, dependenciesMutex, now, crashed, ctx, cancelled,
                   todo, gst, gd, report, updateErr, calls, v1vars, upvars, chvars>>

\* h.bgCheckRunning = true; h.runChecks() begins.
StartSet(s) ==
    /\ ~crashed
    /\ pc[s] = "set"
    /\ bgCheckRunning' = TRUE
    /\ pc' = [pc EXCEPT ![s] = "range"]
    /\ BeginRound(s)
    /\ UNCHANGED <<dependencies, dependenciesMutex, now, crashed, ctx, cancelled,
                   report, updateErr, calls, v1vars, upvars, chvars>>

\* wg.Wait() returns, the ticker is created, the goroutine is started and
\* StartBackgroundCheck returns.
StartSpawn(s) ==
    /\ ~crashed
    /\ pc[s] = "wait"
    /\ Joined(s)
    /\ pc' = [pc EXCEPT ![s] = "started", ![DriverOf(s)] = "select"]
    /\ ctx' = [ctx EXCEPT ![DriverOf(s)] = CtxOf(s)]
    /\ UNCHANGED <<dependencies, dependenciesMutex, bgCheckRunning, now, crashed,
                   cancelled, todo, gst, gd, atCall, report, updateErr, calls, v1vars, upvars, chvars>>

\* case <-ticker.C: h.runChecks() begins.
DriverTick(t) ==
    /\ ~crashed
    /\ pc[t] = "select"
    /\ pc' = [pc EXCEPT ![t] = "range"]
    /\ BeginRound(t)
    /\ UNCHANGED <<dependencies, dependenciesMutex, bgCheckRunning, now, crashed,
                   ctx, cancelled, report, updateErr, calls, v1vars, upvars, chvars>>

\* wg.Wait() of a ticker round returns; back to the select.
DriverJoin(t) ==
    /\ ~crashed
    /\ pc[t] = "wait"
    /\ Joined(t)
    /\ pc' = [pc EXCEPT ![t] = "select"]
    /\ NoRound(t)
    /\ UNCHANGED <<dependencies, dependenciesMutex, bgCheckRunning, now, crashed,
                   ctx, cancelled, report, updateErr, calls, v1vars, upvars, chvars>>

\* case <-ctx.Done(): ticker.Stop(); h.bgCheckRunning = false; return.
DriverStop(t) ==
    /\ ~crashed
    /\ pc[t] = "select"
    /\ cancelled[ctx[t]]
    /\ bgCheckRunning' = FALSE
    /\ pc' = [pc EXCEPT ![t] = "none"]
    /\ NoRound(t)
    /\ UNCHANGED <<dependencies, dependenciesMutex, now, crashed, ctx, cancelled,
                   report, updateErr, calls, v1vars, upvars, chvars>>

\* The caller cancels a context it passed to StartBackgroundCheck.
Cancel(c) ==
    /\ ~crashed
    /\ ~cancelled[c]
    /\ cancelled' = [cancelled EXCEPT ![c] = TRUE]
    /\ UNCHANGED <<dependencies, dependenciesMutex, bgCheckRunning, now, crashed,
                   pc, ctx, todo, gst, gd, atCall, report, updateErr, calls, v1vars, upvars, chvars>>

\* ------------------------------------------------------------- specifications
Round(o) ==
    \/ \E n \in Names : RangeStep(o, n)
    \/ RangeEnd(o)
    \/ \E n \in Names : CheckSkip(o, n)
    \/ \E n \in Names : CheckCall(o, n)
    \/ \E n \in Names, err \in {"nil", FuncErrMsg} : CheckReturn(o, n, err)

Registry ==
    \/ \E n \in Names, fn \in Funcs : AddHealthCheck(n, fn)
    \/ \E n \in Names, fn \in Funcs : AddHardHealthCheck(n, fn)
    \/ \E n \in Names, h \in BOOLEAN, e \in CheckErrors : UpdateHealth(n, h, e)

Get(g) ==
    \/ GetRead(g)
    \/ GetJoin(g)
    \/ GetSnapshot(g)

\* The scheduler as driven by the callers SS.
Scheduler(SS) ==
    \/ \E s \in SS : StartRead(s)
    \/ \E s \in SS : StartSet(s)
    \/ \E s \in SS : StartSpawn(s)
    \/ \E s \in SS : DriverTick(DriverOf(s))
    \/ \E s \in SS : DriverJoin(DriverOf(s))
    \/ \E s \in SS : DriverStop(DriverOf(s))
    \/ \E s \in SS : Cancel(CtxOf(s))

Next ==
    \/ ClockTick
    \/ Registry
    \/ \E g \in Getters : Get(g)
    \/ \E o \in Getters : Round(o)

Spec == Init /\ [][Next]_vars

\* ------------------------------------------------------------- claims
\* The step in which getter g builds and returns its report.
Snapshots(g) == pc[g] \in {"cached", "checked"} /\ pc'[g] = "idle"

\* The step in which the check goroutine of round o for name n finishes
\* (d.check() has returned and the copy has been stored).
Finishes(o, n) == gst[o][n] \in {"ready", "calling"} /\ gst'[o][n] \in {"done", "skipped"}

\* C1: a returned report is unhealthy exactly when one of its dependency
\* entries is a hard dependency that is not healthy, and its status code is
\* 503 when it is unhealthy and 200 when it is healthy.
C1_VerdictRule ==
    \A g \in Getters :
        report[g].status # 0 =>
            LET deps == report[g].Dependencies
                hardDown == \E i \in 1..Len(deps) :
                               deps[i].HardDependency /\ ~deps[i].Healthy
            IN /\ report[g].Healthy = ~hardDown
               /\ report[g].status = IF report[g].Healthy THEN StatusOK
                                     ELSE StatusServiceUnavailable

\* A report with an unhealthy hard dependency next to a healthy one.
C1_Witness ==
    \E g \in Getters :
        /\ report[g].status = StatusServiceUnavailable
        /\ Len(report[g].Dependencies) = 2
        /\ \E i, j \in 1..2 :
              /\ report[g].Dependencies[i].HardDependency
              /\ ~report[g].Dependencies[i].Healthy
              /\ report[g].Dependencies[j].Healthy

\* The health state of a record: everything but its registration.
HealthStates ==
    {[Healthy |-> h, LastCall |-> c, LastKnownGoodCall |-> k, LastError |-> e] :
        h \in BOOLEAN, c \in {0, now}, k \in {0, now},
        e \in {NoError, MkError(UpdateMsg, 0), MkError(FuncErrMsg, now)}}

\* The registry m with the health state of its soft dependency n replaced.
WithHealth(m, n, hs) ==
    [m EXCEPT ![n] = [@ EXCEPT !.Healthy = hs.Healthy, !.LastCall = hs.LastCall,
                               !.LastKnownGoodCall = hs.LastKnownGoodCall,
                               !.LastError = hs.LastError]]

\* C2: whenever a report is built, the same registry with any other health
\* state for any one of its soft dependencies would give the same overall
\* healthy value and the same status code, and the entry of every soft
\* dependency carries that dependency's own healthy value.
C2_SoftNeverCounts ==
    [][\A g \in Getters :
          Snapshots(g) =>
              /\ \A n \in Registered, hs \in HealthStates, order \in Orders(Registered) :
                    ~dependencies[n].HardDependency =>
                        LET other == Response(Appended(WithHealth(dependencies, n, hs), order))
                        IN /\ other.Healthy = report'[g].Healthy
                           /\ other.status = report'[g].status
                           /\ \A i \in 1..Len(order) :
                                 order[i] = n => other.Dependencies[i].Healthy = hs.Healthy
              /\ \A i \in 1..Len(report'[g].Dependencies) :
                    LET e == report'[g].Dependencies[i]
                    IN ~e.HardDependency => e.Healthy = dependencies[e.Name].Healthy
      ]_vars

\* A healthy report that lists an unhealthy soft dependency and a healthy
\* hard one.
C2_Witness ==
    \E g \in Getters :
        /\ report[g].status = StatusOK
        /\ \E i, j \in 1..Len(report[g].Dependencies) :
              /\ ~report[g].Dependencies[i].HardDependency
              /\ ~report[g].Dependencies[i].Healthy
              /\ report[g].Dependencies[j].HardDependency
              /\ report[g].Dependencies[j].Healthy

\* C3: UpdateHealth on a name that is not registered returns the not-found
\* error, stores no record for the name and changes no record.
C3_UnknownNameRejected ==
    [][\A n \in Names, h \in BOOLEAN, e \in CheckErrors :
          (n \notin Registered /\ UpdateHealth(n, h, e)) =>
              /\ updateErr' = "dependency name does not exist"
              /\ dependencies' = dependencies
      ]_vars

\* UpdateHealth has failed on a registry that holds a record, and the name
\* it was called with is still not registered.
C3_Witness ==
    /\ updateErr = "dependency name does not exist"
    /\ Registered # {}
    /\ Registered # Names

C5_NilFuncUntouched ==
    [][\A o \in Owners, n \in Registered :
          (/\ dependencies[n].checkFunc = "nil"
           /\ gd[o][n].checkFunc = "nil"
           /\ dependencies[n].LastCall # 0
           /\ Finishes(o, n)) =>
              dependencies'[n] = dependencies[n]
      ]_vars

\* The entry a report holds for name n, as a set (empty when it has none).
EntriesFor(r, n) == {r.Dependencies[i] : i \in {j \in 1..Len(r.Dependencies) : r.Dependencies[j].Name = n}}

C12_CheckOutcomeStored ==
    [][\A o \in Owners, n \in Registered :
          /\ CheckCall(o, n) => gd'[o][n].LastCall = now
          /\ \A err \in {"nil", FuncErrMsg} :
                CheckReturn(o, n, err) =>
                    /\ dependencies'[n].Healthy = (err = "nil")
                    /\ dependencies'[n].LastCall = gd[o][n].LastCall
                    /\ dependencies'[n].LastCall # 0
                    /\ err # "nil" =>
                          dependencies'[n].LastError =
                              MkError(err, dependencies'[n].LastCall)
      ]_vars

\* A round has been joined with one callable having succeeded and the other
\* failed, and the registry holds both outcomes.
C12_Witness ==
    \E g \in Getters :
        /\ pc[g] = "checked"
        /\ atCall[g] = Names
        /\ \E n, k \in Registered :
              /\ dependencies[n].Healthy /\ dependencies[n].LastCall # 0
              /\ ~dependencies[k].Healthy
              /\ dependencies[k].LastError = MkError(FuncErrMsg, dependencies[k].LastCall)

\* C13: right after a successful check, or an UpdateHealth with healthy =
\* true, is stored, the record's lastKnownGoodCall is present and equal to
\* its lastCall.
C13_GoodCallIsLastCall ==
    [][\A n \in Registered :
          /\ \A e \in CheckErrors :
                UpdateHealth(n, TRUE, e) =>
                    /\ dependencies'[n].LastKnownGoodCall # 0
                    /\ dependencies'[n].LastKnownGoodCall = dependencies'[n].LastCall
          /\ \A o \in Owners :
                CheckReturn(o, n, "nil") =>
                    /\ dependencies'[n].LastKnownGoodCall # 0
                    /\ dependencies'[n].LastKnownGoodCall = dependencies'[n].LastCall
      ]_vars

\* A record with a callable made healthy after the clock has advanced.
C13_Witness ==
    \E n \in Registered :
        /\ dependencies[n].checkFunc # "nil"
        /\ dependencies[n].Healthy
        /\ dependencies[n].LastCall = MaxTime
        /\ dependencies[n].LastKnownGoodCall = MaxTime

\* C14 as claimed: after a failing check, or an UpdateHealth with healthy =
\* false with or without an error detail, the record has a lastError.
C14_FailurePopulatesError ==
    [][\A n \in Registered :
          /\ \A e \in CheckErrors :
                UpdateHealth(n, FALSE, e) => dependencies'[n].LastError.present
          /\ \A o \in Owners :
                CheckReturn(o, n, FuncErrMsg) => dependencies'[n].LastError.present
      ]_vars

\* C14 as the code has it: after a failing check, or an UpdateHealth with
\* healthy = false and an error detail, the record has a lastError with
\* that failure's message; an UpdateHealth with healthy = false and no
\* error detail leaves lastError as it was.
C14_FailureWithDetailPopulatesError ==
    [][\A n \in Registered :
          /\ \A e \in CheckErrors :
                UpdateHealth(n, FALSE, e) =>
                    IF e.isNil
                    THEN dependencies'[n].LastError = dependencies[n].LastError
                    ELSE dependencies'[n].LastError = MkError(e.Message, e.Timestamp)
          /\ \A o \in Owners :
                CheckReturn(o, n, FuncErrMsg) =>
                    /\ dependencies'[n].LastError.present
                    /\ dependencies'[n].LastError.Message = FuncErrMsg
      ]_vars

\* A record made unhealthy by UpdateHealth with no error detail: it has been
\* called, is unhealthy and has no lastError.
C14_Witness ==
    \E n \in Registered :
        /\ dependencies[n].LastCall # 0
        /\ ~dependencies[n].Healthy
        /\ ~dependencies[n].LastError.present

\* C15: the lastKnownGoodCall a failing check or failing UpdateHealth stores
\* for a name is the one the registry held for it just before.
C15_FailureKeepsGoodCall ==
    [][\A n \in Registered :
          /\ \A e \in CheckErrors :
                UpdateHealth(n, FALSE, e) =>
                    dependencies'[n].LastKnownGoodCall = dependencies[n].LastKnownGoodCall
          /\ \A o \in Owners :
                CheckReturn(o, n, FuncErrMsg) =>
                    dependencies'[n].LastKnownGoodCall = dependencies[n].LastKnownGoodCall
      ]_vars

\* A failing check has put back the absent lastKnownGoodCall of its copy
\* over a good call recorded after the copy was taken.
C15_GoodCallLost ==
    \E o \in Owners, n \in Registered :
        /\ gst[o][n] = "calling"
        /\ gd[o][n].LastKnownGoodCall = 0
        /\ dependencies[n].LastKnownGoodCall # 0

\* C16: a report holds exactly one entry for each registered name and no
\* other entry, whatever the order in which the checks of the round
\* completed; a check goroutine adds no name to the registry and removes none.
C16_OneEntryPerName ==
    [][/\ \A g \in Getters :
             Snapshots(g) =>
                 LET deps == report'[g].Dependencies
                 IN /\ Len(deps) = Cardinality(Registered)
                    /\ {deps[i].Name : i \in 1..Len(deps)} = Registered
                    /\ \A i, j \in 1..Len(deps) : deps[i].Name = deps[j].Name => i = j
       /\ \A o \in Owners, n \in Names :
             Finishes(o, n) => DOMAIN dependencies' = DOMAIN dependencies
      ]_vars

\* A report with two entries, both for names whose callable the round of
\* the request invoked.
C16_Witness ==
    \E g \in Getters :
        /\ report[g].status # 0
        /\ Cardinality(Registered) = 2
        /\ Len(report[g].Dependencies) = 2
        /\ \A i \in 1..2 : /\ report[g].Dependencies[i].checkFunc # "nil"
                           /\ report[g].Dependencies[i].LastCall # 0

\* The record shows no call: lastCall, lastKnownGoodCall and lastError absent.
Unobserved(d) == d.LastCall = 0 /\ d.LastKnownGoodCall = 0 /\ d.LastError = NoError

\* C17: a registration stores a record with healthy = false and lastCall,
\* lastKnownGoodCall and lastError absent; the record leaves that state
\* only when UpdateHealth is applied to it or when a check of its callable
\* completes; and a report that lists an unobserved hard dependency is
\* unhealthy.
C17_UnobservedUntilFirstCheck ==
    [][/\ \A n \in Names, hard \in BOOLEAN, fn \in Funcs :
             Register(n, hard, fn) =>
                 ~dependencies'[n].Healthy /\ Unobserved(dependencies'[n])
       /\ \A n \in Registered :
             (/\ Unobserved(dependencies[n])
              /\ ~(Unobserved(dependencies'[n]) /\ ~dependencies'[n].Healthy)) =>
                 \/ \E v \in BOOLEAN, e \in CheckErrors : UpdateHealth(n, v, e)
                 \/ \E o \in Owners, err \in {"nil", FuncErrMsg} : CheckReturn(o, n, err)
       /\ \A g \in Getters :
             Snapshots(g) =>
                 \A i \in 1..Len(report'[g].Dependencies) :
                     LET d == report'[g].Dependencies[i]
                     IN (d.HardDependency /\ Unobserved(d)) => ~report'[g].Healthy
      ]_vars

\* A name has been registered again while a goroutine of a round still
\* holds the copy of its earlier, observed record with no callable.
C17_StaleCopyOfReplacedRecord ==
    \E o \in Owners, n \in Registered :
        /\ gst[o][n] = "ready"
        /\ gd[o][n].checkFunc = "nil"
        /\ ~Unobserved(gd[o][n])
        /\ Unobserved(dependencies[n])

\* C18 as claimed: a report built while a hard dependency is unobserved and
\* no observed hard dependency is unhealthy is healthy.
C18_UnobservedNotCounted ==
    [][\A g \in Getters :
          (/\ Snapshots(g)
           /\ \E n \in Registered :
                 dependencies[n].HardDependency /\ Unobserved(dependencies[n])
           /\ \A n \in Registered :
                 (dependencies[n].HardDependency /\ ~Unobserved(dependencies[n]))
                     => dependencies[n].Healthy)
              => report'[g].Healthy
      ]_vars

\* C18 as the code has it: a report built while a hard dependency is
\* unobserved is unhealthy with status 503, also when no observed hard
\* dependency is unhealthy.
C18_UnobservedCountsAsUnhealthy ==
    [][\A g \in Getters :
          (/\ Snapshots(g)
           /\ \E n \in Registered :
                 dependencies[n].HardDependency /\ Unobserved(dependencies[n]))
              => /\ ~report'[g].Healthy
                 /\ report'[g].status = StatusServiceUnavailable
      ]_vars

\* An unhealthy report whose only unhealthy hard entry is unobserved.
C18_Witness ==
    \E g \in Getters :
        /\ report[g].status = StatusServiceUnavailable
        /\ \E i \in 1..Len(report[g].Dependencies) :
              /\ report[g].Dependencies[i].HardDependency
              /\ Unobserved(report[g].Dependencies[i])
        /\ \A i \in 1..Len(report[g].Dependencies) :
              LET d == report[g].Dependencies[i]
              IN (d.HardDependency /\ ~Unobserved(d)) => d.Healthy

\* C20: no check callable is executing while the registry mutex is held.
C20_CallableOutsideLock ==
    \A o \in Owners, n \in Names :
        gst[o][n] = "calling" => dependenciesMutex = "unlocked"

\* A callable is executing and the mutex is held by its goroutine, while
\* the goroutine of the other name in the round waits for the mutex.
C20_CallableUnderLock ==
    \E o \in Owners, n, k \in Names :
        /\ gst[o][n] = "calling"
        /\ dependenciesMutex = "locked"
        /\ gst[o][k] = "ready"
        /\ gd[o][k].checkFunc # "nil"

\* The registrations a service makes before it starts serving: any subset
\* of the names, "db" as a hard and "cache" as a soft dependency, each with
\* or without a callable.
Registrations ==
    UNION {[S -> {NewDependency("", FALSE, fn) : fn \in Funcs}] : S \in SUBSET Names}

Named(m) ==
    [n \in DOMAIN m |-> [m[n] EXCEPT !.Name = n, !.HardDependency = (n = "db")]]

\* The handler after its registrations, with its background scheduler:
\* concurrent StartBackgroundCheck calls, ticker goroutines, cancellation
\* and /healthz requests.
InitSched ==
    /\ \E m \in Registrations : dependencies = Named(m)
    /\ dependenciesMutex = "unlocked"
    /\ bgCheckRunning = FALSE
    /\ now = 1
    /\ crashed = FALSE
    /\ pc = [o \in Owners |-> IF o \in Drivers THEN "none" ELSE "idle"]
    /\ ctx = [t \in Drivers |-> "c1"]
    /\ cancelled = [c \in Ctxs |-> FALSE]
    /\ todo = [o \in Owners |-> {}]
    /\ gst = [o \in Owners |-> EmptyRound]
    /\ gd = [o \in Owners |-> EmptyCopies]
    /\ atCall = [o \in Owners |-> {}]
    /\ report = [g \in Getters |-> NoReport]
    /\ updateErr = "none"
    /\ calls = 0
    /\ V1Init
    /\ UpInit
    /\ ChInit

\* The same, for a service that registers at most MaxSchedCallables
\* dependencies with a callable.
InitFewCallables ==
    /\ InitSched
    /\ Cardinality({n \in Registered : dependencies[n].checkFunc # "nil"})
          <= MaxSchedCallables

NextSched ==
    \/ Scheduler(Starters)
    \/ \E o \in Starters \cup Drivers : Round(o)

SpecSched == InitFewCallables /\ [][NextSched]_vars

\* One caller of StartBackgroundCheck, its ticker goroutine and /healthz.
NextServe ==
    \/ \E g \in Getters : Get(g)
    \/ Scheduler({<<"starter", 1>>})
    \/ \E o \in {<<"starter", 1>>, <<"driver", 1>>} \cup Getters : Round(o)

SpecServe == InitSched /\ [][NextServe]_vars

\* The same while time passes.
NextTimed == ClockTick \/ NextServe

SpecTimed == InitFewCallables /\ [][NextTimed]_vars

\* C6: once both StartBackgroundCheck calls have returned and no context has
\* been cancelled, exactly one ticker goroutine is active.
C6_OneDriver ==
    (/\ \A s \in Starters : pc[s] \in {"started", "noop"}
     /\ \A c \in Ctxs : ~cancelled[c])
        => Cardinality({t \in Drivers : pc[t] # "none"}) = 1

\* Both calls passed the bgCheckRunning guard and each started a ticker.
C6_TwoDrivers ==
    /\ \A s \in Starters : pc[s] = "started"
    /\ \A t \in Drivers : pc[t] # "none"
    /\ \A c \in Ctxs : ~cancelled[c]

\* C7: a StartBackgroundCheck call that finds bgCheckRunning set returns at
\* once: the flag stays set, no ticker goroutine is started, no round is
\* begun and no record is written by the step; and a call that returned
\* this way has started no ticker goroutine and run no round.
C7_StartWhileRunningIsNoop ==
    [][\A s \in Starters :
          /\ (pc[s] = "idle" /\ pc'[s] # "idle" /\ bgCheckRunning) =>
                /\ pc'[s] = "noop"
                /\ bgCheckRunning'
                /\ \A t \in Drivers : pc'[t] = pc[t]
                /\ UNCHANGED <<dependencies, todo, gst, gd, atCall>>
          /\ pc[s] = "noop" =>
                /\ pc'[s] = "noop"
                /\ pc'[DriverOf(s)] = "none"
                /\ todo'[s] = {} /\ gst'[s] = EmptyRound /\ atCall'[s] = {}
      ]_vars

\* A call has returned as a no-op while the ticker started by the other call
\* is active and the flag is set.
C7_Witness ==
    \E s \in Starters :
        /\ pc[s] = "noop"
        /\ bgCheckRunning
        /\ \E t \in Drivers : pc[t] = "select"

\* C8: getResponse that reads bgCheckRunning unset begins a round over every
\* registered name and, when it builds its report, every name that had a
\* callable has had it invoked and returned in that round; getResponse that
\* reads the flag set begins no round, invokes no callable and builds its
\* report from the records in the registry.
C8_InlineOnlyWhenNotRunning ==
    [][\A g \in Getters :
          /\ (pc[g] = "idle" /\ pc'[g] # "idle") =>
                IF bgCheckRunning
                THEN /\ pc'[g] = "cached"
                     /\ UNCHANGED <<todo, gst, gd, atCall, dependencies>>
                ELSE /\ pc'[g] = "range"
                     /\ todo'[g] = Registered
                     /\ atCall'[g] = {n \in Registered : dependencies[n].checkFunc # "nil"}
          /\ (pc[g] = "cached") =>
                /\ todo[g] = {} /\ gst[g] = EmptyRound
                /\ pc'[g] \in {"cached", "idle"}
          /\ (Snapshots(g) /\ pc[g] = "checked") =>
                \A n \in atCall[g] : gst[g][n] = "done"
          /\ Snapshots(g) =>
                \E order \in Orders(Registered) :
                    report'[g] = Response(Appended(dependencies, order))
      ]_vars

\* An inline round in which both callables were invoked has been joined.
C8_Witness ==
    \E g \in Getters :
        /\ pc[g] = "checked"
        /\ atCall[g] = Names
        /\ \A n \in Names : gst[g][n] = "done"

\* C9: a StartBackgroundCheck call that finds the flag unset begins a round
\* before it starts the ticker; when it returns, the callable of every name
\* registered with one before the call has been invoked and has returned in
\* that round, the record has a lastCall, and each such return stored a
\* healthy value equal to the outcome of the callable.
C9_FirstRoundAtStart ==
    [][/\ \A s \in Starters :
             /\ (pc[s] = "set" /\ pc'[s] # "set") =>
                   /\ pc'[s] = "range"
                   /\ todo'[s] = Registered
                   /\ pc'[DriverOf(s)] = "none"
             /\ pc'[s] = "started" =>
                   \A n \in atCall'[s] :
                       /\ gst'[s][n] = "done"
                       /\ dependencies'[n].LastCall # 0
       /\ \A o \in Owners, n \in Registered, err \in {"nil", FuncErrMsg} :
             CheckReturn(o, n, err) =>
                 /\ dependencies'[n].Healthy = (err = "nil")
                 /\ dependencies'[n].LastCall # 0
      ]_vars

\* A call has returned after a first round that invoked both callables.
C9_Witness ==
    \E s \in Starters :
        /\ pc[s] = "started"
        /\ atCall[s] = Names
        /\ \A n \in Names : gst[s][n] = "done" /\ dependencies[n].LastCall # 0

\* C10: once the scheduler is Stopped (bgCheckRunning unset) no ticker
\* goroutine is left to trigger rounds.
C10_StoppedIsQuiet ==
    ~bgCheckRunning => \A t \in Drivers : pc[t] = "none"

\* A cancelled ticker has stopped and unset the flag while the ticker of the
\* other call is in a round.
C10_StoppedButTicking ==
    /\ ~bgCheckRunning
    /\ \E c \in Ctxs : cancelled[c]
    /\ \E t \in Drivers : pc[t] = "range"


\* ------------------------------------------------------------- v1 handler
\* Strings the v1 handler takes apart are sequences of characters.
nameURLKeySeparator == "|"

\* Names and URLs given to the v1 AddHealthCheck; some hold the separator.
V1Names == {<<"d">>, <<"c">>, <<"d", "|", "c">>}
V1Urls == {<<"u">>, <<"c", "|", "u">>}

\* key := name + nameURLKeySeparator + url
V1Key(name, url) == name \o <<nameURLKeySeparator>> \o url

\* Positions of the separator in s.
SeparatorsIn(s) == {i \in 1..Len(s) : s[i] = nameURLKeySeparator}

\* strings.Split(s, nameURLKeySeparator)
RECURSIVE Split(_)
Split(s) ==
    IF SeparatorsIn(s) = {} THEN <<s>>
    ELSE LET i == CHOOSE k \in SeparatorsIn(s) : \A j \in SeparatorsIn(s) : k <= j
         IN <<SubSeq(s, 1, i - 1)>> \o Split(SubSeq(s, i + 1, Len(s)))

\* The healthDependency a v1 check goroutine appends for key nameURL.
V1Entry(nameURL, isHealthy) ==
    [Name |-> Split(nameURL)[1], URL |-> Split(nameURL)[2], Healthy |-> isHealthy]

\* v1 AddHealthCheck(name, url, check), under checksMutex.
V1AddHealthCheck(name, url, check) ==
    /\ ~crashed
    /\ ClientCall
    /\ checksMutex = "unlocked"
    /\ healthDependency' = MapAssign(healthDependency, V1Key(name, url), check)
    /\ UNCHANGED <<checksMutex, v1pc, v1running, result, v1response>>
    /\ UNCHANGED <<dependencies, dependenciesMutex, bgCheckRunning, now, crashed, pc,
                   ctx, cancelled, todo, gst, gd, atCall, report, updateErr, upvars, chvars>>

\* v1 getResponse calls runChecks: Lock, one goroutine per registered key.
V1RunChecks ==
    /\ ~crashed
    /\ v1pc = "idle"
    /\ checksMutex = "unlocked"
    /\ checksMutex' = "locked"
    /\ v1running' = DOMAIN healthDependency
    /\ result' = <<>>
    /\ v1pc' = "checking"
    /\ v1response' = NoReport
    /\ UNCHANGED <<healthDependency, calls>>
    /\ UNCHANGED <<dependencies, dependenciesMutex, bgCheckRunning, now, crashed, pc,
                   ctx, cancelled, todo, gst, gd, atCall, report, updateErr, upvars, chvars>>

\* The goroutine of nameURL: check() returns err and the entry is appended;
\* calling a nil CheckFunc panics and stops the process.
V1Check(nameURL, err) ==
    /\ ~crashed
    /\ nameURL \in v1running
    /\ IF healthDependency[nameURL] = "nil"
       THEN crashed' = TRUE /\ UNCHANGED <<v1running, result>>
       ELSE /\ result' = Append(result, V1Entry(nameURL, err = "nil"))
            /\ v1running' = v1running \ {nameURL}
            /\ UNCHANGED crashed
    /\ UNCHANGED <<healthDependency, checksMutex, v1pc, v1response, calls>>
    /\ UNCHANGED <<dependencies, dependenciesMutex, bgCheckRunning, now, pc,
                   ctx, cancelled, todo, gst, gd, atCall, report, updateErr, upvars, chvars>>

\* The v1 response as it would be if only the first entry were looked at.
V1ResponseFirstOnly(deps) ==
    IF deps # <<>> /\ ~Head(deps).Healthy
    THEN [status |-> StatusServiceUnavailable, Healthy |-> FALSE, Dependencies |-> deps]
    ELSE [status |-> StatusOK, Healthy |-> TRUE, Dependencies |-> deps]

\* The (responseStatus, healthStatus) v1 getResponse returns: its loop
\* breaks on the first dependency that is not healthy.
V1Response(deps) ==
    IF AnyFailure(deps)
    THEN [status |-> StatusServiceUnavailable, Healthy |-> FALSE, Dependencies |-> deps]
    ELSE [status |-> StatusOK, Healthy |-> TRUE, Dependencies |-> deps]

\* wg.Wait() returns, runChecks unlocks, getResponse folds and returns.
V1Respond ==
    /\ ~crashed
    /\ v1pc = "checking"
    /\ v1running = {}
    /\ checksMutex' = "unlocked"
    /\ v1response' = V1Response(result)
    /\ v1pc' = "idle"
    /\ UNCHANGED <<healthDependency, v1running, result, calls>>
    /\ UNCHANGED <<dependencies, dependenciesMutex, bgCheckRunning, now, crashed, pc,
                   ctx, cancelled, todo, gst, gd, atCall, report, updateErr, upvars, chvars>>

NextV1 ==
    \/ \E name \in V1Names, url \in V1Urls, check \in Funcs :
          V1AddHealthCheck(name, url, check)
    \/ V1RunChecks
    \/ \E nameURL \in DOMAIN healthDependency, err \in {"nil", FuncErrMsg} :
          V1Check(nameURL, err)
    \/ V1Respond

SpecV1 == Init /\ [][NextV1]_vars

\* C19: a v1 request starts one goroutine for every registered check and
\* answers only when all have finished; each appends one entry whose healthy
\* value is the outcome of its check; the response lists as many entries as
\* checks are registered, is healthy with status 200 exactly when every
\* entry is healthy, and is unhealthy with status 503 otherwise.
C19_V1AllChecksMustPass ==
    [][/\ V1RunChecks => v1running' = DOMAIN healthDependency /\ result' = <<>>
       /\ \A nameURL \in DOMAIN healthDependency, err \in {"nil", FuncErrMsg} :
             (V1Check(nameURL, err) /\ ~crashed') =>
                 /\ Len(result') = Len(result) + 1
                 /\ result'[Len(result')].Healthy = (err = "nil")
                 /\ SubSeq(result', 1, Len(result)) = result
       /\ V1Respond =>
             LET deps == v1response'.Dependencies
                 allPassed == \A i \in 1..Len(deps) : deps[i].Healthy
             IN /\ deps = result
                /\ Len(deps) = Cardinality(DOMAIN healthDependency)
                /\ v1response'.Healthy = allPassed
                /\ v1response'.status = IF allPassed THEN StatusOK
                                        ELSE StatusServiceUnavailable
      ]_vars

\* A v1 response over three checks of which only the last to finish failed.
C19_Witness ==
    /\ v1response.status = StatusServiceUnavailable
    /\ Len(v1response.Dependencies) = 3
    /\ v1response.Dependencies[1].Healthy
    /\ v1response.Dependencies[2].Healthy
    /\ ~v1response.Dependencies[3].Healthy

\* ------------------------------------------------------------- registry access
\* A step that assigns to an entry of h.dependencies.
MapWrite ==
    \/ \E n \in Names, hard \in BOOLEAN, fn \in Funcs : Register(n, hard, fn)
    \/ \E n \in Registered, h \in BOOLEAN, e \in CheckErrors : UpdateHealth(n, h, e)
    \/ \E o \in Owners, n \in Names : CheckSkip(o, n)
    \/ \E o \in Owners, n \in Names, err \in {"nil", FuncErrMsg} : CheckReturn(o, n, err)

\* C21: no entry of the registry map is written while a runChecks is
\* iterating over the map.
C21_NoWriteWhileIterating ==
    [][MapWrite => ~RangeActive]_vars

\* The runtime has stopped the process on a map write that met the range of
\* a runChecks.
C21_ConcurrentMapWriteDetected ==
    crashed /\ RangeActive

\* The step is a registration of name n.
Registers(n) == \E hard \in BOOLEAN, fn \in Funcs : Register(n, hard, fn)

\* C23: the name, hard flag and callable of a registered record change only
\* when the name is registered again: no check goroutine and no UpdateHealth
\* changes them or puts back those of an earlier registration.
C23_RegistrationAttributesKept ==
    [][\A n \in Registered :
          ~Registers(n) =>
              /\ n \in DOMAIN dependencies'
              /\ dependencies'[n].Name = dependencies[n].Name
              /\ dependencies'[n].HardDependency = dependencies[n].HardDependency
              /\ dependencies'[n].checkFunc = dependencies[n].checkFunc
      ]_vars

\* A goroutine of a round holds the copy of a record with no callable whose
\* name has since been registered again with other attributes.
C23_StaleCopyOfEarlierRegistration ==
    \E o \in Owners, n \in Registered :
        /\ gst[o][n] = "ready"
        /\ gd[o][n].checkFunc = "nil"
        /\ \/ dependencies[n].checkFunc # "nil"
           \/ dependencies[n].HardDependency # gd[o][n].HardDependency

\* C25: between two registrations of a name its lastKnownGoodCall never
\* moves backwards and never becomes absent again, and it changes only in a
\* step that leaves the record healthy.
C25_GoodCallNeverMovesBack ==
    [][\A n \in Registered :
          ~Registers(n) =>
              /\ dependencies'[n].LastKnownGoodCall >= dependencies[n].LastKnownGoodCall
              /\ dependencies'[n].LastKnownGoodCall # dependencies[n].LastKnownGoodCall
                    => dependencies'[n].Healthy
      ]_vars

\* A goroutine of a round holds a copy with no callable whose
\* lastKnownGoodCall is older than the one the registry holds now.
C25_StaleCopyWithOlderGoodCall ==
    \E o \in Owners, n \in Registered :
        /\ gst[o][n] = "ready"
        /\ gd[o][n].checkFunc = "nil"
        /\ gd[o][n].LastKnownGoodCall < dependencies[n].LastKnownGoodCall

\* C27: a report built after an inline round holds a lastCall for every
\* entry that has a callable.
C27_ReportedCallablesWereChecked ==
    [][\A g \in Getters :
          (pc[g] = "checked" /\ Snapshots(g)) =>
              \A i \in 1..Len(report'[g].Dependencies) :
                  report'[g].Dependencies[i].checkFunc # "nil"
                      => report'[g].Dependencies[i].LastCall # 0
      ]_vars

\* The inline round is over and a name registered with a callable since the
\* round passed it has never been called.
C27_RegisteredAfterTheRound ==
    \E g \in Getters, n \in Registered :
        /\ pc[g] = "checked"
        /\ dependencies[n].checkFunc # "nil"
        /\ dependencies[n].LastCall = 0

\* C22: a report that has been returned is a copy: until its getter asks
\* for the next one, no step changes any field of any of its entries.
C22_ReturnedReportIsFrozen ==
    [][\A g \in Getters :
          (report[g].status # 0 /\ pc[g] = "idle" /\ pc'[g] = "idle")
              => report'[g] = report[g]
      ]_vars

\* A callable is executing for a copy whose lastError object is also the
\* one an entry of a returned report points to, at a later time than the
\* one that object holds.
C22_ReportSharesLastError ==
    \E g \in Getters, o \in Owners, n \in Names :
        /\ report[g].status # 0
        /\ pc[g] = "idle"
        /\ gst[o][n] = "calling"
        /\ gd[o][n].errRef # 0
        /\ \E i \in 1..Len(report[g].Dependencies) :
              /\ report[g].Dependencies[i].Name = n
              /\ report[g].Dependencies[i].errRef = gd[o][n].errRef
              /\ report[g].Dependencies[i].LastError.Timestamp # gd[o][n].LastCall

\* C24: for a dependency with a callable, UpdateHealth and the return of a
\* check each store their own healthy value while holding the mutex, and
\* healthy changes in no other step but a registration: after a race the
\* record holds the value of the write that was applied last.
C24_LastWriteWins ==
    [][\A n \in Registered :
          (/\ dependencies[n].checkFunc # "nil"
           /\ \A o \in Owners : gst[o][n] = "ready" => gd[o][n].checkFunc # "nil") =>
              /\ calls' # calls =>
                    \A h \in BOOLEAN, e \in CheckErrors :
                        \/ /\ dependenciesMutex = "unlocked"
                           /\ dependencies'[n].Healthy = h
                        \/ ~UpdateHealth(n, h, e)
              /\ \A o \in Owners :
                    gst[o][n] = "calling" =>
                        \A err \in {"nil", FuncErrMsg} :
                            \/ /\ dependenciesMutex = "locked"
                               /\ dependencies'[n].Healthy = (err = "nil")
                            \/ ~CheckReturn(o, n, err)
              /\ dependencies'[n].Healthy # dependencies[n].Healthy =>
                    \/ Registers(n)
                    \/ \E h \in BOOLEAN, e \in CheckErrors : UpdateHealth(n, h, e)
                    \/ \E o \in Owners, err \in {"nil", FuncErrMsg} : CheckReturn(o, n, err)
      ]_vars

\* The callable of a name is executing for a copy taken before an
\* UpdateHealth that reported the name unhealthy with an error.
C24_Witness ==
    \E o \in Owners, n \in Registered :
        /\ gst[o][n] = "calling"
        /\ dependencies[n].checkFunc # "nil"
        /\ ~dependencies[n].Healthy
        /\ dependencies[n].LastError.present
        /\ dependencies[n].LastError.Message = UpdateMsg
        /\ gd[o][n].LastError = NoError

\* C26: while the handler is driven by StartBackgroundCheck, at most one
\* round has a check of a given name launched and not yet finished.
C26_RoundsDoNotOverlap ==
    bgCheckRunning =>
        \A n \in Names :
            Cardinality({o \in Owners : gst[o][n] \in {"ready", "calling"}}) <= 1

\* The first round of StartBackgroundCheck and the inline round of a report
\* request that read the flag before it was set both have the check of the
\* same callable launched, with a single ticker goroutine at most.
C26_InlineRoundMeetsFirstRound ==
    \E g \in Getters, s \in Starters, n \in Names :
        /\ bgCheckRunning
        /\ gst[g][n] \in {"ready", "calling"}
        /\ gst[s][n] \in {"ready", "calling"}
        /\ gd[g][n].checkFunc # "nil"
        /\ \A t \in Drivers : pc[t] = "none"

\* C28: a round launches one goroutine for each entry the range produces,
\* that goroutine invokes the callable once, and runChecks returns only
\* when every callable registered at its start has been invoked, has
\* returned and has had its outcome stored.
C28_EachCallableOncePerRound ==
    [][\A o \in Owners :
          /\ (pc[o] = "wait" /\ pc'[o] # "wait") =>
                \A n \in atCall[o] :
                    gst[o][n] = "done" /\ dependencies[n].LastCall # 0
          /\ \A n \in Names :
                /\ (gst'[o][n] = "ready" /\ gst[o][n] # "ready") =>
                      /\ gst[o][n] = "none"
                      /\ pc[o] = "range"
                      /\ n \in todo[o] /\ n \notin todo'[o]
                /\ (gst'[o][n] = "calling" /\ gst[o][n] # "calling") =>
                      gst[o][n] = "ready"
                /\ (gst[o][n] = "calling" /\ gst'[o][n] # "calling") =>
                      gst'[o][n] = "done"
                /\ (gst[o][n] \in {"done", "skipped"} /\ gst'[o][n] # gst[o][n]) =>
                      /\ gst'[o][n] = "none"
                      /\ pc[o] # "range"
                      /\ \A k \in Names : gst[o][k] \notin {"ready", "calling"}
      ]_vars

\* A ticker round is about to return with both callables invoked.
C28_Witness ==
    \E t \in Drivers :
        /\ pc[t] = "wait"
        /\ atCall[t] = Names
        /\ \A n \in Names : gst[t][n] = "done"

\* C29: the return of a failing callable writes the record of its own name
\* only and leaves the other goroutines of every round, the range loops and
\* the positions of all callers as they were.
C29_FailureTouchesOwnRecordOnly ==
    [][\A o \in Owners, n \in Registered :
          CheckReturn(o, n, FuncErrMsg) =>
              /\ DOMAIN dependencies' = DOMAIN dependencies
              /\ \A k \in Registered \ {n} : dependencies'[k] = dependencies[k]
              /\ \A o2 \in Owners, k \in Names \ {n} :
                    gst'[o2][k] = gst[o2][k] /\ gd'[o2][k] = gd[o2][k]
              /\ todo' = todo
              /\ pc' = pc
      ]_vars

\* In one round the callable of a name has failed and the callable of the
\* other name is executing.
C29_Witness ==
    \E o \in Owners, n, k \in Registered :
        /\ gst[o][n] = "done"
        /\ ~dependencies[n].Healthy
        /\ dependencies[n].LastError.present
        /\ dependencies[n].LastError.Message = FuncErrMsg
        /\ gst[o][k] = "calling"

\* ------------------------------------------------------------- UpdateHealth, statement by statement
\* A client calls UpdateHealth(name, isHealthy, checkError); the call starts
\* with h.dependenciesMutex.Lock().
UpdateHealthCall(u, name, isHealthy, checkError) ==
    /\ ~crashed
    /\ ClientCall
    /\ upc[u] = "idle"
    /\ upc' = [upc EXCEPT ![u] = "lock"]
    /\ uargs' = [uargs EXCEPT ![u] = [name |-> name, isHealthy |-> isHealthy,
                                      checkError |-> checkError]]
    /\ UNCHANGED <<dependencies, dependenciesMutex, bgCheckRunning, now, crashed, pc,
                   ctx, cancelled, todo, gst, gd, atCall, report, updateErr,
                   dependency, v1vars, chvars>>

\* UpdateHealth as it would be if it did not take the mutex.
UpdateHealthLockNoMutex(u) ==
    /\ ~crashed
    /\ upc[u] = "lock"
    /\ upc' = [upc EXCEPT ![u] = "locked"]
    /\ UNCHANGED <<dependencies, dependenciesMutex, bgCheckRunning, now, crashed, pc,
                   ctx, cancelled, todo, gst, gd, atCall, report, updateErr, calls,
                   uargs, dependency, v1vars, chvars>>

\* h.dependenciesMutex.Lock() returns.
UpdateHealthLock(u) ==
    /\ ~crashed
    /\ upc[u] = "lock"
    /\ dependenciesMutex = "unlocked"
    /\ dependenciesMutex' = "locked"
    /\ upc' = [upc EXCEPT ![u] = "locked"]
    /\ UNCHANGED <<dependencies, bgCheckRunning, now, crashed, pc, ctx, cancelled,
                   todo, gst, gd, atCall, report, updateErr, calls, uargs,
                   dependency, v1vars, chvars>>

\* dependency, exist := h.dependencies[name]; an unknown name returns the
\* error (and the deferred Unlock runs).
UpdateHealthRead(u) ==
    /\ ~crashed
    /\ upc[u] = "locked"
    /\ IF uargs[u].name \notin Registered
       THEN /\ updateErr' = "dependency name does not exist"
            /\ dependenciesMutex' = "unlocked"
            /\ upc' = [upc EXCEPT ![u] = "idle"]
            /\ uargs' = [uargs EXCEPT ![u] = NoArgs]
            /\ UNCHANGED dependency
       ELSE /\ dependency' = [dependency EXCEPT ![u] = dependencies[uargs[u].name]]
            /\ upc' = [upc EXCEPT ![u] = "read"]
            /\ UNCHANGED <<updateErr, dependenciesMutex, uargs>>
    /\ UNCHANGED <<dependencies, bgCheckRunning, now, crashed, pc, ctx, cancelled,
                   todo, gst, gd, atCall, report, calls, v1vars, chvars>>

\* The fields of the copy are set, h.dependencies[name] = dependency,
\* return nil (and the deferred Unlock runs).
UpdateHealthStore(u) ==
    /\ ~crashed
    /\ upc[u] = "read"
    /\ dependencies' =
          MapAssign(dependencies, uargs[u].name,
                    UpdatedDependency(dependency[u], uargs[u].isHealthy,
                                      uargs[u].checkError))
    /\ crashed' \in RaceOutcomes
    /\ updateErr' = "nil"
    /\ dependenciesMutex' = "unlocked"
    /\ upc' = [upc EXCEPT ![u] = "idle"]
    /\ uargs' = [uargs EXCEPT ![u] = NoArgs]
    /\ dependency' = [dependency EXCEPT ![u] = NoCopy]
    /\ UNCHANGED <<bgCheckRunning, now, pc, ctx, cancelled, todo, gst, gd, atCall,
                   report, calls, v1vars, chvars>>

\* Concurrent UpdateHealth calls on a handler whose registrations are made.
NextUpdate ==
    \/ ClockTick
    \/ \E u \in Updaters, n \in Names, h \in BOOLEAN, e \in CheckErrors :
          UpdateHealthCall(u, n, h, e)
    \/ \E u \in Updaters : UpdateHealthLock(u)
    \/ \E u \in Updaters : UpdateHealthRead(u)
    \/ \E u \in Updaters : UpdateHealthStore(u)

SpecUpdate == InitSched /\ [][NextUpdate]_vars

\* C30: concurrent UpdateHealth calls take effect one at a time: a call
\* stores the update of the record the registry holds at that moment (none
\* written since the call read it), changes no other name, no other call is
\* between its Lock and its Unlock, and a call on an unknown name changes
\* nothing.
C30_UpdateHealthAtomic ==
    [][\A u \in Updaters :
          /\ UpdateHealthStore(u) =>
                /\ dependencies' =
                      MapAssign(dependencies, uargs[u].name,
                                UpdatedDependency(dependencies[uargs[u].name],
                                                  uargs[u].isHealthy,
                                                  uargs[u].checkError))
                /\ \A k \in Registered \ {uargs[u].name} :
                      dependencies'[k] = dependencies[k]
                /\ \A u2 \in Updaters \ {u} : upc[u2] \in {"idle", "lock"}
          /\ (UpdateHealthRead(u) /\ uargs[u].name \notin Registered) =>
                dependencies' = dependencies
      ]_vars

\* One call is between its read and its store while the other call, for the
\* same name and with the opposite health, waits for the mutex.
C30_Witness ==
    \E u, u2 \in Updaters :
        /\ upc[u] = "read"
        /\ upc[u2] = "lock"
        /\ uargs[u].name = uargs[u2].name
        /\ uargs[u].isHealthy # uargs[u2].isHealthy

\* ------------------------------------------------------------- check templates
\* The templates of checks.go that take additionalCheck functions.
Templates == {"MongoHealthCheck", "PostgresHealthCheck", "CloudStorageCheck"}

\* What the primary probe (Ping, PingContext, Get) returns: nil, an error
\* whose gcerrors code is NotFound, another error, or - for Postgres - a
\* failure of postgreClient.DB().
ProbeResults == {"nil", "NotFound", "Internal", "NoDB"}

\* What an additionalCheck function returns.
AdditionalResults == {"nil", "e1", "e2"}

AdditionalChecks == UNION {[1..k -> AdditionalResults] : k \in 0..MaxChecks}

errClientNil == "client is nil"

\* for _, f := range additionalCheck { err = f(client); if err != nil
\* { return err } }: the error returned ("nil" when the loop ends) and the
\* number of functions called.
RECURSIVE RunAdditional(_)
RunAdditional(fs) ==
    IF fs = <<>> THEN [err |-> "nil", n |-> 0]
    ELSE IF Head(fs) # "nil" THEN [err |-> Head(fs), n |-> 1]
    ELSE LET r == RunAdditional(Tail(fs)) IN [err |-> r.err, n |-> r.n + 1]

MongoHealthCheck(c, p, fs) ==
    IF c = "nil" THEN [err |-> errClientNil, n |-> 0]
    ELSE IF p # "nil" THEN [err |-> p, n |-> 0]
    ELSE RunAdditional(fs)

\* fmt.Errorf("unable to ... postgres database: %v", err)
PostgresError(p) ==
    IF p = "NoDB" THEN "unable to get postgres database: NoDB"
    ELSE IF p = "NotFound" THEN "unable to ping postgres database: NotFound"
    ELSE "unable to ping postgres database: Internal"

PostgresHealthCheck(c, p, fs) ==
    IF c = "nil" THEN [err |-> errClientNil, n |-> 0]
    ELSE IF p # "nil" THEN [err |-> PostgresError(p), n |-> 0]
    ELSE RunAdditional(fs)

\* The Get of "randomKey": a nil or NotFound error returns nil, any other
\* error is returned; the loop over additionalCheck follows these returns.
CloudStorageCheck(c, p, fs) ==
    IF c = "nil" THEN [err |-> errClientNil, n |-> 0]
    ELSE IF p = "NotFound" \/ p = "nil" THEN [err |-> "nil", n |-> 0]
    ELSE IF p # "nil" THEN [err |-> p, n |-> 0]
    ELSE LET r == RunAdditional(fs)
         IN [err |-> IF r.err # "nil" THEN r.err ELSE p, n |-> r.n]

\* The CheckFunc the template returns is called.
CallCheckFunc ==
    /\ template \in Templates
    /\ returned = "not called"
    /\ LET r == IF template = "MongoHealthCheck"
                THEN MongoHealthCheck(client, probe, additionalCheck)
                ELSE IF template = "PostgresHealthCheck"
                THEN PostgresHealthCheck(client, probe, additionalCheck)
                ELSE CloudStorageCheck(client, probe, additionalCheck)
       IN returned' = r.err /\ invoked' = r.n
    /\ UNCHANGED <<template, client, probe, additionalCheck>>
    /\ UNCHANGED <<dependencies, dependenciesMutex, bgCheckRunning, now, crashed, pc,
                   ctx, cancelled, todo, gst, gd, atCall, report, updateErr, calls,
                   v1vars, upvars>>

\* A CheckFunc built by one of the templates from any client, probe outcome
\* and additionalCheck functions.
InitChecks ==
    /\ NewHandler
    /\ V1Init
    /\ UpInit
    /\ template \in Templates
    /\ client \in {"nil", "set"}
    /\ probe \in ProbeResults
    /\ additionalCheck \in AdditionalChecks
    /\ invoked = 0
    /\ returned = "not called"

SpecChecks == InitChecks /\ [][CallCheckFunc]_vars

\* C34: once its Get has returned no error or a not-found error, the
\* CheckFunc of CloudStorageCheck has called the additionalCheck functions in
\* order up to the first that fails and has returned that error, or nil if
\* all passed.
C34_CloudStorageRunsAdditionalChecks ==
    (/\ template = "CloudStorageCheck"
     /\ returned # "not called"
     /\ client = "set"
     /\ probe \in {"nil", "NotFound"}) =>
        /\ returned = RunAdditional(additionalCheck).err
        /\ invoked = RunAdditional(additionalCheck).n

\* The CheckFunc of CloudStorageCheck has returned nil after a successful
\* Get although its first additionalCheck function returns an error, which
\* it has not called.
C34_AdditionalCheckSkipped ==
    /\ template = "CloudStorageCheck"
    /\ client = "set"
    /\ probe = "nil"
    /\ Len(additionalCheck) >= 1
    /\ additionalCheck[1] = "e1"
    /\ returned = "nil"
    /\ invoked = 0

\* C31: every record of the registry is consistent: a healthy record has a
\* lastCall and a lastKnownGoodCall and they are equal; a lastKnownGoodCall
\* comes with a lastCall that is not earlier; a lastError comes with a
\* lastCall.
C31_RecordsConsistent ==
    \A n \in Registered :
        LET d == dependencies[n]
        IN /\ d.Healthy =>
                 d.LastCall # 0 /\ d.LastKnownGoodCall = d.LastCall
           /\ d.LastKnownGoodCall # 0 =>
                 d.LastCall # 0 /\ d.LastKnownGoodCall <= d.LastCall
           /\ d.LastError.present => d.LastCall # 0

\* The registry holds a record made healthy by its callable and a record
\* whose callable failed after an earlier good call.
C31_Witness ==
    \E n, k \in Registered :
        /\ dependencies[n].Healthy
        /\ dependencies[n].checkFunc # "nil"
        /\ dependencies[n].LastKnownGoodCall = dependencies[n].LastCall
        /\ ~dependencies[k].Healthy
        /\ dependencies[k].LastError.present
        /\ dependencies[k].LastError.Message = FuncErrMsg
        /\ dependencies[k].LastKnownGoodCall # 0
        /\ dependencies[k].LastKnownGoodCall < dependencies[k].LastCall

\* A request for /healthz is being served by g.
InProgress(g) == pc[g] # "idle"

\* Some goroutine of the handler can take its next step: a range iteration,
\* a lock acquisition that is granted, the return of a callable, a
\* wg.Wait() that returns, or the building of a report.
SomeStepPossible == ENABLED (\E o \in Getters : Get(o) \/ Round(o))

\* C32: no deadlock: while an operation is in progress some goroutine can
\* take a step, so that the round is joined and the lock is granted.
C32_NoOperationStuck ==
    (\E g \in Getters : InProgress(g)) => SomeStepPossible

\* The runtime stopped the process on a map write that met a range: the
\* request is never answered, its round is never joined and a goroutine the
\* round launched never gets the lock.
C32_RoundNeverJoined ==
    /\ crashed
    /\ \E g \in Getters :
          /\ InProgress(g)
          /\ \E n \in Names : gst[g][n] = "ready"
    /\ ~SomeStepPossible

\* Unless the runtime stopped the process, an operation in progress is
\* never stuck.
NoDeadlockUnlessStopped ==
    (~crashed /\ \E g \in Getters : InProgress(g)) => SomeStepPossible

\* C33: a StartBackgroundCheck(ctx) call made after the previous start has
\* returned and its context has been cancelled, with ctx not cancelled,
\* passes the bgCheckRunning guard and goes on to start checking under ctx.
C33_RestartAfterCancelStarts ==
    [][\A s, prev \in Starters :
          (/\ pc[s] = "idle" /\ pc'[s] # "idle"
           /\ pc[prev] = "started"
           /\ cancelled[CtxOf(prev)]
           /\ ~cancelled[CtxOf(s)]) => pc'[s] = "set"
      ]_vars

\* The previous ticker goroutine has handled ctx.Done() and unset the flag
\* after the later call found the flag still set and returned: no ticker
\* goroutine is left although the later context is not cancelled.
C33_RestartLost ==
    \E s, prev \in Starters :
        /\ pc[prev] = "started"
        /\ cancelled[CtxOf(prev)]
        /\ pc[s] = "noop"
        /\ ~cancelled[CtxOf(s)]
        /\ ~bgCheckRunning
        /\ \A t \in Drivers : pc[t] = "none"

====
